---- MODULE Spec2Model ----
(***************************************************************************)
(* Aggregation kinds, aggregation descriptors, the target-type trait       *)
(* (target_type_impl / target_type_t), the validity trait                  *)
(* (is_valid_aggregation) and the type-and-kind double dispatch            *)
(* (dispatch_type_and_aggregation -> dispatch_source ->                    *)
(* aggregation_dispatcher -> dispatch_aggregation -> callable) of          *)
(* cudf/detail/aggregation/aggregation.hpp.                                *)
(***************************************************************************)
EXTENDS Integers, Sequences, FiniteSets, TLC

VARIABLES
  agg,        \* the aggregation descriptor of the current request
  type,       \* data_type (type id) of the column being aggregated
  target,     \* {} or {target_type_t<Source, k>} once instantiated
  valid,      \* {} or {is_valid_aggregation<Source, k>()} once evaluated
  pc,         \* position of the dispatch call chain
  path,       \* "host" (__CUDA_ARCH__ undefined) or "device"
  stack,      \* active frames of the dispatch call chain, innermost last
  Element,    \* element type chosen by type_dispatcher, NoElement if none
  tk,         \* {} or {the Kind template argument chosen by the switch}
  invoked,    \* specializations <<Element, k>> of the callable invoked so far
  ret,        \* {} or {value returned to the caller}
  err,        \* exception in flight or caught by the caller, "none" if none
  arg,        \* the argument forwarded to the callable
  ctor_error  \* outcome of the last descriptor construction

vars == <<agg, type, target, valid, pc, path, stack, Element, tk, invoked,
          ret, err, arg, ctor_error>>

----------------------------------------------------------------------------
(* Bounds of the model *)

\* largest number of quantile fractions given to a quantile descriptor
MaxQuantiles == 2
\* largest integer value a Kind object is given (values above CUDA are
\* outside the enumeration)
MaxKindValue == 15

----------------------------------------------------------------------------
(* aggregation::Kind *)

SUM == 0
MIN == 1
MAX == 2
COUNT == 3
MEAN == 4
MEDIAN == 5
QUANTILE == 6
ARGMAX == 7
ARGMIN == 8
PTX == 9
CUDA == 10

Kind == {SUM, MIN, MAX, COUNT, MEAN, MEDIAN, QUANTILE, ARGMAX, ARGMIN, PTX, CUDA}

\* values a Kind object can hold, the enumerators and the corrupted ones
KindValues == 0..MaxKindValue

----------------------------------------------------------------------------
(* The column type system (cudf/types.hpp, type_dispatcher.hpp) *)

TypeIds == {"INT8", "INT16", "INT32", "INT64", "FLOAT32", "FLOAT64", "BOOL8",
            "TIMESTAMP_DAYS", "TIMESTAMP_SECONDS", "TIMESTAMP_MILLISECONDS",
            "TIMESTAMP_MICROSECONDS", "TIMESTAMP_NANOSECONDS",
            "CATEGORY", "STRING"}

\* type_dispatcher: the C++ type a type id stands for
id_to_type(id) ==
  CASE id = "INT8" -> "int8_t"
    [] id = "INT16" -> "int16_t"
    [] id = "INT32" -> "int32_t"
    [] id = "INT64" -> "int64_t"
    [] id = "FLOAT32" -> "float"
    [] id = "FLOAT64" -> "double"
    [] id = "BOOL8" -> "bool8"
    [] id = "TIMESTAMP_DAYS" -> "timestamp_D"
    [] id = "TIMESTAMP_SECONDS" -> "timestamp_s"
    [] id = "TIMESTAMP_MILLISECONDS" -> "timestamp_ms"
    [] id = "TIMESTAMP_MICROSECONDS" -> "timestamp_us"
    [] id = "TIMESTAMP_NANOSECONDS" -> "timestamp_ns"
    [] id = "CATEGORY" -> "int32_t"
    [] id = "STRING" -> "string_view"

ElementTypes == {id_to_type(id) : id \in TypeIds}

is_integral(T) == T \in {"int8_t", "int16_t", "int32_t", "int64_t"}

is_floating_point(T) == T \in {"float", "double"}

is_timestamp(T) ==
  T \in {"timestamp_D", "timestamp_s", "timestamp_ms", "timestamp_us",
         "timestamp_ns"}

size_type == "int32_t"

void == "void"

NoElement == "none"

Interpolations == {"LINEAR", "LOWER", "HIGHER", "MIDPOINT", "NEAREST"}

----------------------------------------------------------------------------
(* Aggregation descriptors *)

\* aggregation(aggregation::Kind a) : kind{a}
aggregation(a) ==
  [cls |-> "aggregation", kind |-> a, _quantiles |-> <<>>,
   _interpolation |-> "none", source |-> "", _output_type |-> "none"]

\* quantile_aggregation(q, i) : aggregation{QUANTILE}, _quantiles{q},
\* _interpolation{i}
quantile_aggregation(q, i) ==
  [aggregation(QUANTILE) EXCEPT !.cls = "quantile_aggregation",
                                !._quantiles = q, !._interpolation = i]

\* udf_aggregation(type, user_defined_aggregator, output_type)
udf_aggregation(t, user_defined_aggregator, output_type) ==
  [aggregation(t) EXCEPT !.cls = "udf_aggregation",
                         !.source = user_defined_aggregator,
                         !._output_type = output_type]

----------------------------------------------------------------------------
(* Target-type and validity traits *)

\* primary template with a non-void default
target_type_impl_primary_Source(Source, k) == Source

\* primary template target_type_impl<Source, k, Enable>: no mapping
target_type_impl_primary(Source, k) == void

\* MIN specialized for arithmetic Source only
target_type_impl_MIN_Arithmetic(Source) ==
  IF is_integral(Source) \/ is_floating_point(Source)
  THEN Source
  ELSE target_type_impl_primary(Source, MIN)

\* target_type_impl<Source, MIN>
target_type_impl_MIN(Source) == Source

\* target_type_impl<Source, MAX>
target_type_impl_MAX(Source) == Source

\* COUNT accumulating in Source
target_type_impl_COUNT_Source(Source) == Source

\* target_type_impl<Source, COUNT>
target_type_impl_COUNT(Source) == size_type

\* target_type_impl<Source, MEAN>
target_type_impl_MEAN(Source) == "double"

\* SUM of integers accumulating in Source, without widening
target_type_impl_SUM_NoWidening(Source) ==
  CASE is_integral(Source) -> Source
    [] is_floating_point(Source) -> Source
    [] is_timestamp(Source) -> Source
    [] OTHER -> target_type_impl_primary(Source, SUM)

\* target_type_impl<Source, SUM, enable_if_t<...>>: the three enabled
\* specializations, the primary template when none is enabled
target_type_impl_SUM(Source) ==
  CASE is_integral(Source) -> "int64_t"
    [] is_floating_point(Source) -> Source
    [] is_timestamp(Source) -> Source
    [] OTHER -> target_type_impl_primary(Source, SUM)

\* target_type_impl<Source, QUANTILE>
target_type_impl_QUANTILE(Source) == "double"

\* target_type_impl<Source, MEDIAN>: its ::type names the QUANTILE
\* specialization itself, a class type, not that specialization's ::type
target_type_impl_MEDIAN(Source) == "target_type_impl<" \o Source \o ", QUANTILE>"

\* target_type_impl<Source, ARGMAX>
target_type_impl_ARGMAX(Source) == size_type

\* target_type_impl<Source, ARGMIN>
target_type_impl_ARGMIN(Source) == size_type

\* target_type_impl<Source, k>::type: the specialization selected for k
target_type_impl(Source, k) ==
  CASE k = MIN -> target_type_impl_MIN(Source)
    [] k = MAX -> target_type_impl_MAX(Source)
    [] k = COUNT -> target_type_impl_COUNT(Source)
    [] k = MEAN -> target_type_impl_MEAN(Source)
    [] k = SUM -> target_type_impl_SUM(Source)
    [] k = QUANTILE -> target_type_impl_QUANTILE(Source)
    [] k = MEDIAN -> target_type_impl_MEDIAN(Source)
    [] k = ARGMAX -> target_type_impl_ARGMAX(Source)
    [] k = ARGMIN -> target_type_impl_ARGMIN(Source)
    [] OTHER -> target_type_impl_primary(Source, k)

\* target_type_t<Source, k> = typename target_type_impl<Source, k>::type
target_type_t(Source, k) == target_type_impl(Source, k)

\* the validity trait testing the trait class, never void, instead of its ::type
is_valid_aggregation_ImplClass(Source, k) == TRUE

\* is_valid_aggregation<Source, k>()
is_valid_aggregation(Source, k) == ~(target_type_t(Source, k) = void)

----------------------------------------------------------------------------
(* Dispatch *)

\* the switch of aggregation_dispatcher falling through to SUM by default
SwitchCase_DefaultSum(k) ==
  IF k \in {SUM, MIN, MAX, COUNT, MEAN, MEDIAN, QUANTILE, ARGMAX, ARGMIN}
  THEN {k} ELSE {SUM}

\* switch (k) of aggregation_dispatcher: the Kind template argument of the
\* case taken, as a singleton; {} stands for the default label
SwitchCase(k) ==
  CASE k = SUM -> {SUM}
    [] k = MIN -> {MIN}
    [] k = MAX -> {MAX}
    [] k = COUNT -> {COUNT}
    [] k = MEAN -> {MEAN}
    [] k = MEDIAN -> {MEDIAN}
    [] k = QUANTILE -> {QUANTILE}
    [] k = ARGMAX -> {ARGMAX}
    [] k = ARGMIN -> {ARGMIN}
    [] OTHER -> {}

\* frames declared noexcept
is_noexcept(frame) ==
  frame \in {"dispatch_source::operator()", "dispatch_aggregation::operator()"}

\* what the callable's specialization <E, k> returns for argument a
Body(E, k, a) == <<E, k, a>>

Args == {1, 2}
Paths == {"host", "device"}

\* quantile fractions, in hundredths
Fractions == {25, 50}
QuantileLists == UNION {[1..n -> Fractions] : n \in 0..MaxQuantiles}
Sources == {"", "kernel"}
OutputTypes == {"INT32", "FLOAT64"}

----------------------------------------------------------------------------
(* Initial state: a column of some type and a plain descriptor of some kind
   value; no trait evaluated, no dispatch in progress *)

Init ==
  /\ type \in TypeIds
  /\ agg \in {aggregation(a) : a \in KindValues}
  /\ target = {}
  /\ valid = {}
  /\ pc = "idle"
  /\ path = "host"
  /\ stack = <<>>
  /\ Element = NoElement
  /\ tk = {}
  /\ invoked = <<>>
  /\ ret = {}
  /\ err = "none"
  /\ arg = 1
  /\ ctor_error = "none"

dispatch_vars == <<pc, path, stack, Element, tk, invoked, ret, err, arg>>

----------------------------------------------------------------------------
(* Construction of descriptors *)

\* a caller constructs aggregation{a}
new_aggregation(a) ==
  /\ pc = "idle"
  /\ agg' = aggregation(a)
  /\ target' = {}
  /\ valid' = {}
  /\ ctor_error' = "none"
  /\ UNCHANGED <<type, dispatch_vars>>

\* a caller constructs detail::quantile_aggregation{q, i}
new_quantile_aggregation(q, i) ==
  /\ pc = "idle"
  /\ agg' = quantile_aggregation(q, i)
  /\ target' = {}
  /\ valid' = {}
  /\ ctor_error' = "none"
  /\ UNCHANGED <<type, dispatch_vars>>

\* a caller constructs detail::udf_aggregation{t, source, output_type}
new_udf_aggregation(t, user_defined_aggregator, output_type) ==
  /\ pc = "idle"
  /\ agg' = udf_aggregation(t, user_defined_aggregator, output_type)
  /\ target' = {}
  /\ valid' = {}
  /\ ctor_error' = "none"
  /\ UNCHANGED <<type, dispatch_vars>>

\* the factory make_quantile_aggregation(q, i): rejects an empty list of
\* fractions, otherwise constructs the quantile descriptor
make_quantile_aggregation(q, i) ==
  /\ pc = "idle"
  /\ IF q = <<>>
     THEN /\ ctor_error' = "MalformedDescriptor"
          /\ UNCHANGED <<agg, target, valid>>
     ELSE /\ agg' = quantile_aggregation(q, i)
          /\ target' = {}
          /\ valid' = {}
          /\ ctor_error' = "none"
  /\ UNCHANGED <<type, dispatch_vars>>

----------------------------------------------------------------------------
(* Use of the traits for the column's element type and the descriptor's kind *)

\* target_type_t<Source, k> is instantiated
instantiate_target_type_t ==
  /\ pc = "idle"
  /\ target' = {target_type_t(id_to_type(type), agg.kind)}
  /\ UNCHANGED <<agg, type, valid, dispatch_vars, ctor_error>>

\* is_valid_aggregation<Source, k>() is evaluated
evaluate_is_valid_aggregation ==
  /\ pc = "idle"
  /\ valid' = {is_valid_aggregation(id_to_type(type), agg.kind)}
  /\ UNCHANGED <<agg, type, target, dispatch_vars, ctor_error>>

----------------------------------------------------------------------------
(* The dispatch call chain *)

\* dispatch_type_and_aggregation(type, k, f, args): type_dispatcher resolves
\* the element type and calls dispatch_source{} with it
dispatch_type_and_aggregation(p, a) ==
  /\ pc = "idle"
  /\ path' = p
  /\ arg' = a
  /\ Element' = id_to_type(type)
  /\ stack' = <<"dispatch_type_and_aggregation", "type_dispatcher">>
  /\ pc' = "dispatch_source"
  /\ UNCHANGED <<agg, type, target, valid, tk, invoked, ret, err, ctor_error>>

\* dispatch_source::operator()<Element>(k, f, args) noexcept: calls
\* aggregation_dispatcher(k, dispatch_aggregation<Element>{}, f, args)
dispatch_source ==
  /\ pc = "dispatch_source"
  /\ stack' = Append(stack, "dispatch_source::operator()")
  /\ pc' = "aggregation_dispatcher"
  /\ UNCHANGED <<agg, type, target, valid, path, Element, tk, invoked, ret,
                 err, arg, ctor_error>>

\* a caller calls aggregation_dispatcher(k, f, args) with its own callable
call_aggregation_dispatcher(p, a) ==
  /\ pc = "idle"
  /\ path' = p
  /\ arg' = a
  /\ pc' = "aggregation_dispatcher"
  /\ UNCHANGED <<agg, type, target, valid, stack, Element, tk, invoked, ret,
                 err, ctor_error>>

\* aggregation_dispatcher(k, f, args): the switch on k; the default label
\* throws (CUDF_FAIL) in host code and traps (release_assert) in device code
aggregation_dispatcher ==
  /\ pc = "aggregation_dispatcher"
  /\ stack' = Append(stack, "aggregation_dispatcher")
  /\ tk' = SwitchCase(agg.kind)
  /\ IF tk' # {}
     THEN /\ pc' = "callable"
          /\ err' = err
     ELSE IF path = "host"
          THEN /\ pc' = "unwinding"
               /\ err' = "cudf::logic_error"
          ELSE /\ pc' = "trapped"
               /\ err' = err
  /\ UNCHANGED <<agg, type, target, valid, path, Element, invoked, ret, arg,
                 ctor_error>>

\* f.template operator()<k>(args): dispatch_aggregation<Element>::operator()
\* <k>(f, args) noexcept, which invokes f<Element, k>(args), or the caller's
\* own callable f<k>(args)
callable ==
  /\ pc = "callable"
  /\ \E k \in tk :
       /\ invoked' = Append(invoked, <<Element, k>>)
       /\ ret' = {Body(Element, k, arg)}
  /\ stack' = IF Element = NoElement
              THEN stack
              ELSE Append(stack, "dispatch_aggregation::operator()")
  /\ pc' = "returning"
  /\ UNCHANGED <<agg, type, target, valid, path, Element, tk, err, arg,
                 ctor_error>>

\* a frame returns the value to its caller
return ==
  /\ pc = "returning"
  /\ IF stack = <<>>
     THEN /\ pc' = "returned"
          /\ stack' = stack
     ELSE /\ pc' = pc
          /\ stack' = SubSeq(stack, 1, Len(stack) - 1)
  /\ UNCHANGED <<agg, type, target, valid, path, Element, tk, invoked, ret,
                 err, arg, ctor_error>>

\* the exception propagates out of the throwing frame.  When a noexcept frame
\* lies between the throw and the caller std::terminate is called, and it is
\* implementation-defined whether the frames below the noexcept one are
\* unwound first: it may be called during the handler search with every frame
\* still active, or after the frames up to the noexcept one were left.
\* Without a noexcept frame each frame is left in turn and the caller catches.
unwind ==
  /\ pc = "unwinding"
  /\ \/ /\ stack = <<>>
        /\ pc' = "caught"
        /\ stack' = stack
     \/ /\ \E n \in 1..Len(stack) : is_noexcept(stack[n])
        /\ pc' = "terminated"
        /\ stack' = stack
     \/ /\ stack # <<>>
        /\ ~is_noexcept(stack[Len(stack)])
        /\ pc' = pc
        /\ stack' = SubSeq(stack, 1, Len(stack) - 1)
  /\ UNCHANGED <<agg, type, target, valid, path, Element, tk, invoked, ret,
                 err, arg, ctor_error>>

\* the caller, holding the result or the caught exception, goes on
caller_continues ==
  /\ pc \in {"returned", "caught"}
  /\ pc' = "idle"
  /\ path' = "host"
  /\ stack' = <<>>
  /\ Element' = NoElement
  /\ tk' = {}
  /\ invoked' = <<>>
  /\ ret' = {}
  /\ err' = "none"
  /\ arg' = 1
  /\ UNCHANGED <<agg, type, target, valid, ctor_error>>

Next ==
  \/ \E a \in KindValues : new_aggregation(a)
  \/ \E q \in QuantileLists, i \in Interpolations : new_quantile_aggregation(q, i)
  \/ \E t \in KindValues, s \in Sources, o \in OutputTypes :
       new_udf_aggregation(t, s, o)
  \/ \E q \in QuantileLists, i \in Interpolations : make_quantile_aggregation(q, i)
  \/ instantiate_target_type_t
  \/ evaluate_is_valid_aggregation
  \/ \E p \in Paths, a \in Args : dispatch_type_and_aggregation(p, a)
  \/ dispatch_source
  \/ \E p \in Paths, a \in Args : call_aggregation_dispatcher(p, a)
  \/ aggregation_dispatcher
  \/ callable
  \/ return
  \/ unwind
  \/ caller_continues

Spec == Init /\ [][Next]_vars

----------------------------------------------------------------------------
(* Properties *)

\* the C++ element type of the column
ColumnType == id_to_type(type)

\* a dispatch call that has ended, one way or another
Terminal == {"returned", "caught", "terminated", "trapped"}

\* the dispatch went through dispatch_type_and_aggregation
ViaEngine == Element # NoElement

\* one step of the dispatch call chain
DispatchStep ==
  dispatch_source \/ aggregation_dispatcher \/ callable \/ return \/ unwind

\* C1: for every element type, the target type of QUANTILE and the target
\* type of MEDIAN are both double.
C1_QuantileMedianDouble ==
  (target # {} /\ agg.kind \in {QUANTILE, MEDIAN}) => target = {"double"}

\* C2: the target type of SUM is int64_t for an integer Source, Source for a
\* floating-point Source, Source for a timestamp Source and void otherwise,
\* and exactly one of these four cases applies to a Source.
C2_SumTargetType ==
  (target # {} /\ agg.kind = SUM) =>
    LET int == is_integral(ColumnType)
        flt == is_floating_point(ColumnType)
        ts  == is_timestamp(ColumnType)
        none == ~int /\ ~flt /\ ~ts
    IN /\ int => target = {"int64_t"}
       /\ flt => target = {ColumnType}
       /\ ts => target = {ColumnType}
       /\ none => target = {void}
       /\ Cardinality({c \in {"int", "flt", "ts", "none"} :
                         \/ c = "int" /\ int
                         \/ c = "flt" /\ flt
                         \/ c = "ts" /\ ts
                         \/ c = "none" /\ none}) = 1

C2_Witness ==
  agg.kind = SUM /\ type = "INT32" /\ target = {"int64_t"}

\* C3: for every element type, numeric or not, the target type of MIN and of
\* MAX is the element type itself, so MIN and MAX always have a mapping.
C3_MinMaxKeepSource ==
  /\ (target # {} /\ agg.kind \in {MIN, MAX}) =>
       (target = {ColumnType} /\ target # {void})
  /\ (valid # {} /\ agg.kind \in {MIN, MAX}) => valid = {TRUE}

C3_Witness ==
  agg.kind = MAX /\ type = "STRING" /\ target = {"string_view"} /\ valid = {TRUE}

\* C4: for every element type, COUNT, ARGMIN and ARGMAX resolve to size_type
\* and MEAN resolves to double.
C4_TypeIndependentKinds ==
  /\ (target # {} /\ agg.kind \in {COUNT, ARGMIN, ARGMAX}) => target = {size_type}
  /\ (target # {} /\ agg.kind = MEAN) => target = {"double"}

C4_Witness ==
  agg.kind = ARGMIN /\ type = "FLOAT64" /\ target = {"int32_t"}

\* C5: is_valid_aggregation<Source, k>() is true exactly when
\* target_type_t<Source, k> is not void, for every element type and every kind.
C5_ValidIffMapped ==
  (target # {} /\ valid # {}) => (valid = {TRUE} <=> target # {void})

C5_Witness ==
  agg.kind = SUM /\ type = "STRING" /\ target = {void} /\ valid = {FALSE}

\* C6, as stated: for the user-defined kinds PTX and CUDA the validity trait
\* is true for every element type.
C6_UdfAlwaysValid ==
  (valid # {} /\ agg.kind \in {PTX, CUDA}) => valid = {TRUE}

\* C6, amended: for the user-defined kinds PTX and CUDA the target type is
\* void and the validity trait is false, for every element type.
C6_UdfNeverValid ==
  /\ (valid # {} /\ agg.kind \in {PTX, CUDA}) => valid = {FALSE}
  /\ (target # {} /\ agg.kind \in {PTX, CUDA}) => target = {void}

C6_Witness ==
  /\ agg.cls = "udf_aggregation"
  /\ agg.kind = PTX
  /\ valid = {FALSE}
  /\ target = {void}

\* C7: for every element type and every enumerator of Kind, a dispatch through
\* dispatch_type_and_aggregation invokes the callable exactly once, with the
\* specialization <Source, k>, and returns that invocation's result.
C7_DispatchDeterminism ==
  /\ Len(invoked) <= 1
  /\ (ViaEngine /\ agg.kind \in Kind /\ pc \in Terminal) =>
       /\ pc = "returned"
       /\ invoked = << <<ColumnType, agg.kind>> >>
       /\ ret = {Body(ColumnType, agg.kind, arg)}

\* C8: with a Kind value outside the enumeration, in host code and in device
\* code, called directly or through dispatch_type_and_aggregation, no
\* specialization of the callable is ever invoked, nothing is returned, and
\* the dispatch goes on until it has failed.
C8_OutOfRangeNoInvocation ==
  (agg.kind \notin Kind /\ pc # "idle") =>
    /\ invoked = <<>>
    /\ ret = {}
    /\ pc \notin {"callable", "returning", "returned"}
    /\ (pc \in {"caught", "terminated", "trapped"} \/ ENABLED DispatchStep)

C8_Witness ==
  /\ agg.kind \notin Kind
  /\ path = "device"
  /\ ViaEngine
  /\ pc = "trapped"
  /\ invoked = <<>>

\* C9: in host code, a dispatch of a Kind value outside the enumeration
\* through dispatch_type_and_aggregation ends with the caller holding the
\* exception; the process is not terminated.
C9_HostFailureRecoverable ==
  (path = "host" /\ ViaEngine /\ agg.kind \notin Kind /\ pc \in Terminal) =>
    (pc = "caught" /\ err = "cudf::logic_error")

\* C10: a quantile descriptor is never constructed with an empty list of
\* fractions: every constructed quantile descriptor holds at least one.
C10_QuantileNonEmpty ==
  agg.cls = "quantile_aggregation" =>
    (agg.kind = QUANTILE /\ agg._quantiles # <<>>)

====
